---- MODULE Spec2Model ----
(***************************************************************************)
(* A model of make_documents.py: the extract / sequence / group / render   *)
(* pipeline that turns a workbook of song rows into a Typst document with  *)
(* an alphabetical index.                                                  *)
(*                                                                         *)
(* A Python str is a sequence of one-character strings; None, the two      *)
(* bools and the numbers are values of their own.  An emitted line is a    *)
(* pair <<template, arguments>>: the text of the f-string and the (already *)
(* escaped) values put into it.  An exception is a value too: a function   *)
(* that raises returns it, a function that returns a list or yields lines  *)
(* ends the list with an item that holds it.                               *)
(***************************************************************************)
EXTENDS Integers, Sequences, FiniteSets

VARIABLES
    pc,                 \* where the driver of the specification stands
    wb,                 \* the workbook: a sequence of [name, rows] in native order
    section_order,      \* the priority list
    sheets_to_process,  \* result of get_sheets_to_process
    ws,                 \* parse_sheet: the rows of the worksheet
    songs,              \* result of parse_sheet, input of group_songs_by_source
    groups,             \* result of group_songs_by_source
    text,               \* escape_typst: its argument
    escaped,            \* escape_typst: its result
    all_songs,          \* the (title, artist, section) entries of the index
    index_lines,        \* the lines generate_alphabetical_index yields
    sheet_idx,          \* generate_typst: position of the section loop
    first_section,      \* generate_typst: its local flag
    lines               \* generate_typst: the lines yielded so far

\* pc is "start" before the call, "done" after it has returned (with
\* "sections" in between, for generate_typst), and the name of the exception
\* after the call has raised.
vars == <<pc, wb, section_order, sheets_to_process, ws, songs, groups, text,
          escaped, all_songs, index_lines, sheet_idx, first_section, lines>>

----------------------------------------------------------------------------
(* Python values *)

\* None: a value that is no str.
None == <<"None">>

\* The values of a cell that are neither None nor a str: a bool, an int, a
\* float.  Their first element is no character, so none of them is a str.
False == <<"bool", "False">>

True == <<"bool", "True">>

IntZero == <<"int", "0">>

IntOne == <<"int", "1">>

FloatZero == <<"float", "0.0">>

\* The values bool() takes to False.
Falsy == {None, <<>>, False, IntZero, FloatZero}

\* bool(v)
Truthy(v) == v \notin Falsy

\* v or ""
OrEmpty(v) == IF Truthy(v) THEN v ELSE <<>>

\* str(v)
py_str(v) == CASE v = None      -> <<"N","o","n","e">>
               [] v = False     -> <<"F","a","l","s","e">>
               [] v = True      -> <<"T","r","u","e">>
               [] v = IntZero   -> <<"0">>
               [] v = IntOne    -> <<"1">>
               [] v = FloatZero -> <<"0",".","0">>
               [] OTHER         -> v

\* The exceptions the program raises on a value that is no str.
TypeError == <<"raise", "TypeError">>

AttributeError == <<"raise", "AttributeError">>

Raises(v) == v \in {TypeError, AttributeError}

\* The name of an exception.
ExceptionName(exc) == exc[2]

ExceptionNames == {"TypeError", "AttributeError"}

\* a == b on the values of cells, and their equality as keys of a dict:
\* True == 1 and False == 0 == 0.0.
py_eq(a, b) ==
    \/ a = b
    \/ a \in {True, IntOne} /\ b \in {True, IntOne}
    \/ a \in {False, IntZero, FloatZero} /\ b \in {False, IntZero, FloatZero}

\* What a function that returns a list returns when it raises: one item, which
\* holds the exception in place of its key.
RaisedItem(exc) == <<exc, <<>>>>

ListRaised(list) == list # <<>> /\ Raises(list[Len(list)][1])

RaisedBy(list) == list[Len(list)][1]

\* The letters of the model that have an upper and a lower case: the ASCII
\* letters and A with diaeresis.
UpperCase == <<"A","B","C","D","E","F","G","H","I","J","K","L","M",
               "N","O","P","Q","R","S","T","U","V","W","X","Y","Z","Ä">>

LowerCase == <<"a","b","c","d","e","f","g","h","i","j","k","l","m",
               "n","o","p","q","r","s","t","u","v","w","x","y","z","ä">>

\* The sharp s: a lower-case letter whose upper case is two characters long.
SharpS == "ß"

LetterIndex(alphabet, c) == CHOOSE i \in 1..Len(alphabet) : alphabet[i] = c

IsUpper(c) == \E i \in 1..Len(UpperCase) : UpperCase[i] = c

IsLower(c) == \E i \in 1..Len(LowerCase) : LowerCase[i] = c

IsLetter(c) == IsUpper(c) \/ IsLower(c) \/ c = SharpS

\* str.isalpha(): at least one character, and every character a letter.
isalpha(s) == s # <<>> /\ \A i \in 1..Len(s) : IsLetter(s[i])

\* The grave accent (U+0060), a character the module's own syntax cannot quote.
Backtick == "U+0060"

\* The code point of a character.
code_point(c) ==
    IF c = "Ä" THEN 196
    ELSE IF c = "ä" THEN 228
    ELSE IF c = SharpS THEN 223
    ELSE IF IsUpper(c) THEN 64 + LetterIndex(UpperCase, c)
    ELSE IF IsLower(c) THEN 96 + LetterIndex(LowerCase, c)
    ELSE CASE c = " "  -> 32
           [] c = "\""  -> 34
           [] c = "#"  -> 35
           [] c = "$"  -> 36
           [] c = "'"  -> 39
           [] c = "("  -> 40
           [] c = ")"  -> 41
           [] c = "*"  -> 42
           [] c = ","  -> 44
           [] c = "."  -> 46
           [] c = "/"  -> 47
           [] c = "0"  -> 48
           [] c = "1"  -> 49
           [] c = "<"  -> 60
           [] c = ">"  -> 62
           [] c = "@"  -> 64
           [] c = "\\" -> 92
           [] c = "_"  -> 95
           [] c = Backtick -> 96
           [] c = "~"  -> 126

\* The characters of the model.
Characters ==
    {UpperCase[i] : i \in 1..Len(UpperCase)} \cup {LowerCase[i] : i \in 1..Len(LowerCase)}
    \cup {" ", "\"", "#", "$", "'", "(", ")", "*", ",", ".", "/", "0", "1", "<", ">", "@",
          "\\", "_", Backtick, "~", SharpS}

\* ord(), str.lower() and str.upper() of one character, as tables; the upper
\* case of a character is a str, of two characters for the sharp s.
OrdTable == [c \in Characters |-> code_point(c)]

LowerTable == [c \in Characters |->
                 IF IsUpper(c) THEN LowerCase[LetterIndex(UpperCase, c)] ELSE c]

UpperTable == [c \in Characters |->
                 IF c = SharpS THEN <<"S", "S">>
                 ELSE IF IsLower(c) THEN <<UpperCase[LetterIndex(LowerCase, c)]>>
                 ELSE <<c>>]

Ord(c) == OrdTable[c]

lower_char(c) == LowerTable[c]

upper_char(c) == UpperTable[c]

\* A value that is a str.
IsStr(v) == \A i \in 1..Len(v) : v[i] \in Characters

\* str.lower()
str_lower(s) == [i \in 1..Len(s) |-> lower_char(s[i])]

\* v.lower(): only a str has the method.
py_lower(v) == IF IsStr(v) THEN str_lower(v) ELSE AttributeError

\* str.upper()
RECURSIVE str_upper(_)
str_upper(s) == IF s = <<>> THEN <<>> ELSE upper_char(Head(s)) \o str_upper(Tail(s))

\* a < b on str: lexicographic by code point, a proper prefix first.
RECURSIVE StrLess(_, _)
StrLess(a, b) ==
    IF b = <<>> THEN FALSE
    ELSE IF a = <<>> THEN TRUE
    ELSE IF a[1] # b[1] THEN Ord(a[1]) < Ord(b[1])
    ELSE StrLess(Tail(a), Tail(b))

\* list.sort / sorted on <<key, value>> pairs, by key: what a stable sort
\* returns, computed by binary insertion.  Each element goes after every
\* element already placed whose key is not greater: bisect_right gives their
\* number, looking at sorted[lo+1..hi].
RECURSIVE bisect_right(_, _, _, _)
bisect_right(sorted, key, lo, hi) ==
    IF lo >= hi THEN lo
    ELSE LET mid == (lo + hi) \div 2
         IN  IF StrLess(key, sorted[mid + 1][1])
             THEN bisect_right(sorted, key, lo, mid)
             ELSE bisect_right(sorted, key, mid + 1, hi)

InsertByKey(sorted, p) ==
    LET n == bisect_right(sorted, p[1], 0, Len(sorted))
    IN  SubSeq(sorted, 1, n) \o <<p>> \o SubSeq(sorted, n + 1, Len(sorted))

\* The insertions of pairs[lo..hi], in that order, into sorted.  Every loop of
\* the code over a list is unfolded this way, by halves, so that the depth of
\* the evaluation grows with the logarithm of the list's length; the test
\* `done = done' only makes the first half run before the second starts.
RECURSIVE sort_loop(_, _, _, _)
sort_loop(pairs, lo, hi, sorted) ==
    IF lo > hi THEN sorted
    ELSE IF lo = hi THEN InsertByKey(sorted, pairs[lo])
    ELSE LET mid  == (lo + hi) \div 2
             done == sort_loop(pairs, lo, mid, sorted)
         IN  IF done = done THEN sort_loop(pairs, mid + 1, hi, done) ELSE done

SortByKey(pairs) == sort_loop(pairs, 1, Len(pairs), <<>>)

Values(pairs) == [i \in 1..Len(pairs) |-> pairs[i][2]]

\* sorted / list.sort with a key function, on the <<key, value>> pairs: the
\* keys are all computed first, and the first exception among them is raised.
sorted_by_key(pairs) ==
    IF \E i \in 1..Len(pairs) : Raises(pairs[i][1])
    THEN LET i == CHOOSE i \in 1..Len(pairs) :
                      Raises(pairs[i][1]) /\ \A j \in 1..(i - 1) : ~Raises(pairs[j][1])
         IN  <<RaisedItem(pairs[i][1])>>
    ELSE Values(SortByKey(pairs))

\* x in list
InSeq(x, s) == \E i \in 1..Len(s) : s[i] = x

\* list.index(x), 1-based; 0 stands for the None the code uses when x is absent.
IndexOf(x, s) ==
    IF InSeq(x, s) THEN CHOOSE i \in 1..Len(s) : s[i] = x /\ \A j \in 1..(i - 1) : s[j] # x
    ELSE 0

----------------------------------------------------------------------------
(* parse_sheet *)

\* header = [str(h).lower() if h else "" for h in rows[0]]
header_of(row) ==
    [i \in 1..Len(row) |-> IF Truthy(row[i]) THEN str_lower(py_str(row[i])) ELSE <<>>]

\* row[idx] if idx is not None else None
cell_at(row, idx) == IF idx # 0 THEN row[idx] ELSE None

\* The body of the loop over rows[1:], for one row.
parse_row(acc, row, artist_idx, title_idx, source_idx) ==
    LET artist == cell_at(row, artist_idx)
        title  == cell_at(row, title_idx)
        source == cell_at(row, source_idx)
    IN  IF Truthy(title)
        THEN Append(acc, <<OrEmpty(artist), title, OrEmpty(source)>>)
        ELSE acc

\* for row in rows[lo..hi], on the list acc.
RECURSIVE parse_rows(_, _, _, _, _, _, _)
parse_rows(rows, lo, hi, acc, artist_idx, title_idx, source_idx) ==
    IF lo > hi THEN acc
    ELSE IF lo = hi THEN parse_row(acc, rows[lo], artist_idx, title_idx, source_idx)
    ELSE LET mid  == (lo + hi) \div 2
             done == parse_rows(rows, lo, mid, acc, artist_idx, title_idx, source_idx)
         IN  IF done = done
             THEN parse_rows(rows, mid + 1, hi, done, artist_idx, title_idx, source_idx)
             ELSE done

parse_sheet(rows) ==
    IF rows = <<>> THEN <<>>
    ELSE LET header == header_of(rows[1])
         IN  parse_rows(rows, 2, Len(rows), <<>>,
                        IndexOf(<<"a","r","t","i","s","t">>, header),
                        IndexOf(<<"t","i","t","l","e">>, header),
                        IndexOf(<<"s","o","u","r","c","e">>, header))

----------------------------------------------------------------------------
(* get_sheets_to_process *)

\* wb.sheetnames
sheetnames(book) == [i \in 1..Len(book) |-> book[i].name]

\* wb[sheet_name]
sheet_rows(book, name) == book[IndexOf(name, sheetnames(book))].rows

\* for name in section_order: if name in wb.sheetnames: sheets.append(name)
RECURSIVE append_ordered(_, _, _)
append_ordered(sheets, order, names) ==
    IF order = <<>> THEN sheets
    ELSE append_ordered(IF InSeq(Head(order), names) THEN Append(sheets, Head(order))
                        ELSE sheets,
                        Tail(order), names)

\* The second loop without its test `name not in sheets'.
append_remaining_unchecked(sheets, names) == sheets \o names

\* for name in wb.sheetnames: if name not in sheets: sheets.append(name)
RECURSIVE append_remaining(_, _)
append_remaining(sheets, names) ==
    IF names = <<>> THEN sheets
    ELSE append_remaining(IF ~InSeq(Head(names), sheets) THEN Append(sheets, Head(names))
                          ELSE sheets,
                          Tail(names))

get_sheets_to_process(book, order) ==
    append_remaining(append_ordered(<<>>, order, sheetnames(book)), sheetnames(book))

----------------------------------------------------------------------------
(* group_songs_by_source *)

\* by_source[source] = [(artist, title)] in place of the append.
dict_assign(by_source, source, item) ==
    IF \E i \in 1..Len(by_source) : py_eq(by_source[i][1], source)
    THEN [i \in 1..Len(by_source) |->
            IF py_eq(by_source[i][1], source)
            THEN <<by_source[i][1], <<item>>>>
            ELSE by_source[i]]
    ELSE Append(by_source, <<source, <<item>>>>)

\* by_source[source].append((artist, title)) on a dict kept as a sequence of
\* <<source, list>> items in insertion order; a key that is in the dict stays
\* as it was first written.
dict_append(by_source, source, item) ==
    IF \E i \in 1..Len(by_source) : py_eq(by_source[i][1], source)
    THEN [i \in 1..Len(by_source) |->
            IF py_eq(by_source[i][1], source)
            THEN <<by_source[i][1], Append(by_source[i][2], item)>>
            ELSE by_source[i]]
    ELSE Append(by_source, <<source, <<item>>>>)

\* for artist, title, source in song_list[lo..hi], on the dict by_source.
RECURSIVE collect_by_source(_, _, _, _)
collect_by_source(by_source, song_list, lo, hi) ==
    IF lo > hi THEN by_source
    ELSE IF lo = hi
         THEN dict_append(by_source, song_list[lo][3], <<song_list[lo][1], song_list[lo][2]>>)
    ELSE LET mid  == (lo + hi) \div 2
             done == collect_by_source(by_source, song_list, lo, mid)
         IN  IF done = done THEN collect_by_source(done, song_list, mid + 1, hi) ELSE done

\* The sort of a group by the artist as the str is written, not lower-cased.
sort_songs_case_sensitive(source_songs) ==
    sorted_by_key([i \in 1..Len(source_songs) |->
                     <<IF IsStr(source_songs[i][1]) THEN source_songs[i][1]
                       ELSE AttributeError,
                       source_songs[i]>>])

\* by_source[source].sort(key=lambda s: s[0].lower())
sort_songs(source_songs) ==
    sorted_by_key([i \in 1..Len(source_songs) |->
                     <<py_lower(source_songs[i][1]), source_songs[i]>>])

\* sorted(by_source.items(), key=lambda p: p[0].lower())
sort_items(items) ==
    sorted_by_key([i \in 1..Len(items) |-> <<py_lower(items[i][1]), items[i]>>])

\* The sorts of the lists raise in the order of the dict, before the sort of
\* the items.
group_songs_by_source(song_list) ==
    LET by_source == collect_by_source(<<>>, song_list, 1, Len(song_list))
        sorted    == [i \in 1..Len(by_source) |-> sort_songs(by_source[i][2])]
    IN  IF \E i \in 1..Len(sorted) : ListRaised(sorted[i])
        THEN LET i == CHOOSE i \in 1..Len(sorted) :
                          ListRaised(sorted[i]) /\ \A j \in 1..(i - 1) : ~ListRaised(sorted[j])
             IN  <<RaisedItem(RaisedBy(sorted[i]))>>
        ELSE sort_items([i \in 1..Len(by_source) |-> <<by_source[i][1], sorted[i]>>])

----------------------------------------------------------------------------
(* escape_typst *)

SpecialChars == {"#", "*", "_", Backtick, "$", "@", "\\", "<", ">"}

\* The substitution of re.sub on a str.
RECURSIVE sub_special(_)
sub_special(s) ==
    IF s = <<>> THEN <<>>
    ELSE (IF Head(s) \in SpecialChars THEN <<"\\", Head(s)>> ELSE <<Head(s)>>)
         \o sub_special(Tail(s))

\* text = re.sub(<one of SpecialChars>, <backslash, then the character>, text);
\* re.sub raises TypeError on what is neither str nor bytes.
re_sub_special(s) == IF IsStr(s) THEN sub_special(s) ELSE TypeError

\* str.replace(old, new): the occurrences found scanning left to right, each
\* search resuming after the previous match.
RECURSIVE str_replace(_, _, _)
str_replace(s, old, new) ==
    IF Len(s) < Len(old) THEN s
    ELSE IF SubSeq(s, 1, Len(old)) = old
         THEN new \o str_replace(SubSeq(s, Len(old) + 1, Len(s)), old, new)
         ELSE <<Head(s)>> \o str_replace(Tail(s), old, new)

escape_typst(s) ==
    LET subbed == re_sub_special(s)
    IN  IF Raises(subbed) THEN subbed
        ELSE str_replace(str_replace(subbed, <<"/", "/">>, <<"/", "\\", "/">>),
                         <<"/", "*">>, <<"/", "\\", "*">>)

----------------------------------------------------------------------------
(* emitted lines *)

\* A yielded line: the f-string's text and the values formatted into it.
Line(fmt, args) == <<fmt, args>>

PageBreak == Line("#pagebreak()", <<>>)

Blank == Line("", <<>>)

CloseBracket == Line("]", <<>>)

ColumnsOpen == Line("#columns(3, gutter: 1cm)[", <<>>)

BlockOpen == Line("#block(breakable: false)[", <<>>)

Preamble == Line("TYPST_PREAMBLE", <<>>)

\* Where a generator raises: the item that ends the lines it has yielded.
RaiseLine(exc) == Line("raise", <<exc>>)

LinesRaised(out) == \E i \in 1..Len(out) : out[i][1] = "raise"

\* The lines up to the place where the generator raises, that place included.
UpToRaise(out) ==
    IF ~LinesRaised(out) THEN out
    ELSE LET k == CHOOSE k \in 1..Len(out) :
                      out[k][1] = "raise" /\ \A j \in 1..(k - 1) : out[j][1] # "raise"
         IN  SubSeq(out, 1, k)

\* An f-string over escape_typst of the values, from left to right: the line,
\* or the exception of the first escape_typst that raises.
FormatLine(fmt, values) ==
    LET args == [i \in 1..Len(values) |-> escape_typst(values[i])]
    IN  IF \E i \in 1..Len(args) : Raises(args[i])
        THEN RaiseLine(args[CHOOSE i \in 1..Len(args) :
                                Raises(args[i]) /\ \A j \in 1..(i - 1) : ~Raises(args[j])])
        ELSE Line(fmt, args)

SectionHeading(sheet_name) == FormatLine("= {}", <<sheet_name>>)

SourceHeading(source) == FormatLine("== {}", <<source>>)

\* format_song_typst; the separator of the first form is an en dash.
format_song_typst(artist, title) ==
    IF Truthy(artist)
    THEN FormatLine("- {} -- {}", <<artist, title>>)
    ELSE FormatLine("- {}", <<title>>)

----------------------------------------------------------------------------
(* generate_alphabetical_index *)

\* repr() of a number, a bool or None, which is their str(), and repr() of a
\* str of printable characters: between double quotes if the str
\* holds an apostrophe and no double quote, between apostrophes otherwise,
\* with a backslash before every backslash and every apostrophe.
py_repr(s) ==
    LET body == str_replace(s, <<"\\">>, <<"\\", "\\">>)
    IN  IF ~IsStr(s) THEN py_str(s)
        ELSE IF InSeq("'", s) /\ ~InSeq("\"", s)
        THEN <<"\"">> \o body \o <<"\"">>
        ELSE <<"'">> \o str_replace(body, <<"'">>, <<"\\", "'">>) \o <<"'">>

\* str((title, artist)).lower()
title_artist_key(title, artist) ==
    str_lower(<<"(">> \o py_repr(title) \o <<",", " ">> \o py_repr(artist) \o <<")">>)

\* first_char = title[0].upper() if title else ""
\* first_letter = first_char if first_char.isalpha() else "#"
\* title[0] of a value that is truthy and no str raises TypeError.
first_letter_of(title) ==
    IF Truthy(title) /\ ~IsStr(title) THEN TypeError
    ELSE LET first_char == IF Truthy(title) THEN str_upper(<<title[1]>>) ELSE <<>>
         IN  IF isalpha(first_char) THEN first_char ELSE <<"#">>

LetterHeader(letter) ==
    FormatLine("  table.cell(colspan: 2, align: center, inset: 3pt, fill: luma(80%))[#text(weight: \"bold\")[{}]],",
               <<letter>>)

\* title_esc, then artist_esc = escape_typst(artist) if artist else "", which
\* is empty only if artist is falsy.
IndexRow(title, artist) ==
    IF Truthy(artist)
    THEN FormatLine("  [{}], [{}],", <<title, artist>>)
    ELSE FormatLine("  [{}], [],", <<title>>)

\* sorted(all_songs, key=lambda s: s[0].lower())
sort_index(entries) ==
    sorted_by_key([i \in 1..Len(entries) |-> <<py_lower(entries[i][1]), entries[i]>>])

\* The adjacent-duplicate test of the loop.
is_duplicate(title_artist, last_title_artist) == title_artist = last_title_artist

\* The body of the loop over sorted_songs, for one entry.  The state of the
\* loop is [out, current_letter, last_title_artist]: the lines yielded so far
\* and the two locals.
index_entry(st, entry) ==
    LET title        == entry[1]
        artist       == entry[2]
        title_artist == title_artist_key(title, artist)
        first_letter == first_letter_of(title)
    IN  IF is_duplicate(title_artist, st.last_title_artist)
        THEN st
        ELSE IF Raises(first_letter)
        THEN [out |-> Append(st.out, RaiseLine(first_letter)),
              current_letter |-> st.current_letter,
              last_title_artist |-> title_artist]
        ELSE [out |-> st.out
                      \o (IF first_letter # st.current_letter
                          THEN <<LetterHeader(first_letter)>> ELSE <<>>)
                      \o <<IndexRow(title, artist)>>,
              current_letter |-> first_letter,
              last_title_artist |-> title_artist]

\* for title, artist, section in sorted_songs[lo..hi], on the loop state st.
RECURSIVE index_loop(_, _, _, _)
index_loop(sorted_songs, lo, hi, st) ==
    IF lo > hi THEN st
    ELSE IF lo = hi THEN index_entry(st, sorted_songs[lo])
    ELSE LET mid  == (lo + hi) \div 2
             done == index_loop(sorted_songs, lo, mid, st)
         IN  IF done = done THEN index_loop(sorted_songs, mid + 1, hi, done) ELSE done

index_rows(sorted_songs) ==
    UpToRaise(index_loop(sorted_songs, 1, Len(sorted_songs),
                         [out |-> <<>>, current_letter |-> None,
                          last_title_artist |-> None]).out)

IndexHead ==
    << PageBreak, Blank, Line("= Hakemisto", <<>>), Blank,
       Line("#set text(size: 6pt)", <<>>),
       Line("#set par(leading: 0.3em)", <<>>),
       Line("#columns(3, gutter: 0.25cm)[", <<>>),
       Line("#table(", <<>>),
       Line("  columns: (1.5fr, 1fr),", <<>>),
       Line("  stroke: none,", <<>>),
       Line("  inset: 1.5pt,", <<>>),
       Line("  row-gutter: 0pt,", <<>>) >>

IndexTail == << Line(")", <<>>), CloseBracket, Blank >>

\* The sort runs before the first yield.
generate_alphabetical_index(entries) ==
    IF entries = <<>> THEN <<>>
    ELSE LET sorted_songs == sort_index(entries)
         IN  IF ListRaised(sorted_songs) THEN <<RaiseLine(RaisedBy(sorted_songs))>>
             ELSE UpToRaise(IndexHead \o index_rows(sorted_songs) \o IndexTail)

----------------------------------------------------------------------------
(* generate_typst *)

\* The test of use_columns with > in place of >=.
use_columns_above(song_list) == Len(song_list) > 100

\* use_columns = len(songs) >= 100
use_columns(song_list) == Len(song_list) >= 100

\* short_block = len(source_songs) < 30
short_block(source_songs) == Len(source_songs) < 30

\* The page break without the test of first_section.
section_break_always(first) == <<PageBreak, Blank>>

\* Page break before each section (except first)
section_break(first) == IF first THEN <<>> ELSE <<PageBreak, Blank>>

\* The body of the loop over the groups of a section, for one group.
group_lines(source, source_songs) ==
    UpToRaise(
        (IF short_block(source_songs) THEN <<BlockOpen>> ELSE <<>>)
        \o (IF Truthy(source) THEN <<SourceHeading(source), Blank>> ELSE <<>>)
        \o [i \in 1..Len(source_songs) |->
                format_song_typst(source_songs[i][1], source_songs[i][2])]
        \o (IF short_block(source_songs) THEN <<CloseBracket>> ELSE <<>>)
        \o <<Blank>>)

RECURSIVE each_group_lines(_)
each_group_lines(gs) ==
    IF gs = <<>> THEN <<>>
    ELSE group_lines(Head(gs)[1], Head(gs)[2]) \o each_group_lines(Tail(gs))

\* for source, source_songs in gs, where gs is what group_songs_by_source
\* has returned or raised.
all_group_lines(gs) ==
    IF ListRaised(gs) THEN <<RaiseLine(RaisedBy(gs))>>
    ELSE UpToRaise(each_group_lines(gs))

\* What one pass of the section loop yields for a sheet with songs.
section_lines(sheet_name, song_list, first) ==
    UpToRaise(
        section_break(first)
        \o <<SectionHeading(sheet_name), Blank>>
        \o (IF use_columns(song_list) THEN <<ColumnsOpen>> ELSE <<>>)
        \o all_group_lines(group_songs_by_source(song_list))
        \o (IF use_columns(song_list) THEN <<CloseBracket>> ELSE <<>>)
        \o <<Blank>>)

\* The lines a generator has yielded, without the place where it raised.
Yielded(out) == IF LinesRaised(out) THEN SubSeq(out, 1, Len(out) - 1) ELSE out

\* How a generator that has yielded out ends: "done", or its exception.
Outcome(out) == IF LinesRaised(out) THEN ExceptionName(out[Len(out)][2][1]) ELSE "done"

\* for artist, title, source in songs: all_songs.append((title, artist, sheet_name))
index_entries(song_list, sheet_name) ==
    [i \in 1..Len(song_list) |-> <<song_list[i][2], song_list[i][1], sheet_name>>]

----------------------------------------------------------------------------
(* DEFAULT_ORDER *)

DEFAULT_ORDER ==
    << <<"A","n","i","m","e">>,
       <<"J","a","p","a","n","i">>,
       <<"K","o","r","e","a">>,
       <<"K","i","i","n","a">>,
       <<"M","y"," ","L","i","t","t","l","e"," ","P","o","n","y">>,
       <<"D","i","s","n","e","y">>,
       <<"E","n","g","l","a","n","t","i">>,
       <<"S","u","o","m","i">>,
       <<"M","u","u","t">> >>

----------------------------------------------------------------------------
(* inputs *)

SeqsUpTo(S, n) == UNION {[1..k -> S] : k \in 0..n}

IsInjective(f) == \A i, j \in DOMAIN f : f[i] = f[j] => i = j

Anime == DEFAULT_ORDER[1]

Korea == DEFAULT_ORDER[3]

Muut == DEFAULT_ORDER[9]

Extra == <<"E","x","t","r","a">>

\* A worksheet name that needs escaping.
Starred == <<"K","*">>

\* The variables a specification does not use keep these values.
NoBook == wb = <<>> /\ section_order = <<>> /\ sheets_to_process = <<>>

NoSheet == ws = <<>> /\ songs = <<>> /\ groups = <<>>

NoText == text = <<>> /\ escaped = <<>>

NoIndex == all_songs = <<>> /\ index_lines = <<>>

NoDocument == sheet_idx = 0 /\ first_section = TRUE /\ lines = <<>>

----------------------------------------------------------------------------
(* get_sheets_to_process, called on a workbook and a priority list *)

MaxNames == 3

MaxOrder == 2

SheetNameUniverse == {Anime, Muut, Extra}

OrderNameUniverse == {Anime, Muut, Extra, Korea}

\* Worksheet titles are unique within a workbook.
Books == {[i \in DOMAIN names |-> [name |-> names[i], rows |-> <<>>]] :
            names \in {f \in SeqsUpTo(SheetNameUniverse, MaxNames) : IsInjective(f)}}

\* The default list, or what --order gives (nargs="+": one name or more,
\* repeats allowed).
Orders == {DEFAULT_ORDER} \cup (SeqsUpTo(OrderNameUniverse, MaxOrder) \ {<<>>})

InitSheets ==
    /\ pc = "start"
    /\ wb \in Books
    /\ section_order \in Orders
    /\ sheets_to_process = <<>>
    /\ NoSheet /\ NoText /\ NoIndex /\ NoDocument

CallGetSheets ==
    /\ pc = "start"
    /\ sheets_to_process' = get_sheets_to_process(wb, section_order)
    /\ pc' = "done"
    /\ UNCHANGED <<wb, section_order, ws, songs, groups, text, escaped,
                   all_songs, index_lines, sheet_idx, first_section, lines>>

SpecSheets == InitSheets /\ [][CallGetSheets]_vars

\* The number of times x occurs in the sequence s.
Count(x, s) == Cardinality({i \in 1..Len(s) : s[i] = x})

\* C1: get_sheets_to_process returns the names of the priority list that are
\* worksheets of the workbook, in the order of the priority list, followed by
\* the worksheet names not among them, in the order of the workbook; for the
\* worksheets Muut, Anime, Extra and the default list: Anime, Muut, Extra.
C1_PriorityThenNative ==
    pc = "done" =>
        LET names     == sheetnames(wb)
            prior     == SelectSeq(section_order, LAMBDA n : \E i \in 1..Len(names) : names[i] = n)
            remaining == SelectSeq(names, LAMBDA n : \A i \in 1..Len(prior) : prior[i] # n)
        IN  /\ sheets_to_process = prior \o remaining
            /\ (names = <<Muut, Anime, Extra>> /\ section_order = DEFAULT_ORDER)
                   => sheets_to_process = <<Anime, Muut, Extra>>

\* C1's case: the three worksheets Muut, Anime, Extra sequenced by the default list.
C1_Witness ==
    /\ pc = "done"
    /\ sheetnames(wb) = <<Muut, Anime, Extra>>
    /\ section_order = DEFAULT_ORDER
    /\ sheets_to_process = <<Anime, Muut, Extra>>

\* C6: the list get_sheets_to_process returns holds every worksheet name
\* exactly once, also when the priority list repeats a name.
C6_EachSheetOnce ==
    pc = "done" =>
        \A i \in 1..Len(wb) : Count(wb[i].name, sheets_to_process) = 1

----------------------------------------------------------------------------
(* parse_sheet, called on a worksheet *)

MaxRows == 2

ColumnNames == << <<"a","r","t","i","s","t">>, <<"t","i","t","l","e">>,
                  <<"s","o","u","r","c","e">> >>

Capitalized(w) == upper_char(w[1]) \o Tail(w)

\* The header cell of a column in one of three letter cases: artist, Artist, ARTIST.
HeaderCell(w, c) == CASE c = 1 -> w
                      [] c = 2 -> Capitalized(w)
                      [] c = 3 -> str_upper(w)

Permutations3 == {p \in [1..3 -> 1..3] : IsInjective(p)}

\* (artist, title, source) cells of a data row of text; None is an empty cell.
TextRows == {<<a, t, s>> : a \in {None, <<"a">>},
                           t \in {None, <<>>, <<"t">>, <<"u">>},
                           s \in {None, <<"s">>}}

\* Data rows with a cell that holds a number or a bool.
NumberRows == { <<<<"a">>, IntZero, <<"s">>>>, <<<<"a">>, FloatZero, <<"s">>>>,
                <<<<"a">>, False, <<"s">>>>,   <<<<"a">>, IntOne, <<"s">>>>,
                <<IntZero, <<"t">>, False>>,   <<True, <<"t">>, IntOne>> }

DataRows == TextRows \cup NumberRows

\* The header cell of a column the program does not read: empty, a number
\* that is falsy, a bool that is truthy.
UnreadHeader == <<None, IntZero, True>>

\* A worksheet whose three columns stand in the order p, all header cells in
\* one case; with extra = 1 a column the program does not read stands before
\* them.
Worksheet(p, c, extra, data) ==
    LET lead(cell) == IF extra = 1 THEN <<cell>> ELSE <<>>
    IN  << lead(UnreadHeader[c]) \o [i \in 1..3 |-> HeaderCell(ColumnNames[p[i]], c)] >>
        \o [k \in 1..Len(data) |-> lead(<<"z">>) \o [i \in 1..3 |-> data[k][p[i]]]]

\* A worksheet without rows, or a header row and up to MaxRows data rows.
InitParse ==
    /\ pc = "start"
    /\ \/ ws = <<>>
       \/ \E p \in Permutations3, c \in 1..3, extra \in 0..1 :
              \E data \in SeqsUpTo(DataRows, MaxRows) : ws = Worksheet(p, c, extra, data)
    /\ songs = <<>> /\ groups = <<>>
    /\ NoBook /\ NoText /\ NoIndex /\ NoDocument

CallParseSheet ==
    /\ pc = "start"
    /\ songs' = parse_sheet(ws)
    /\ pc' = "done"
    /\ UNCHANGED <<wb, section_order, sheets_to_process, ws, groups, text, escaped,
                   all_songs, index_lines, sheet_idx, first_section, lines>>

SpecParse == InitParse /\ [][CallParseSheet]_vars

\* The column of a header row whose cell reads `word' in some letter case.
ColumnOf(hdr, word) == CHOOSE i \in 1..Len(hdr) : IsStr(hdr[i]) /\ str_lower(hdr[i]) = word

HasColumn(hdr, word) == \E i \in 1..Len(hdr) : IsStr(hdr[i]) /\ str_lower(hdr[i]) = word

\* C2: for a worksheet whose header row holds artist, title and source in any
\* letter case and any column order, parse_sheet returns one (artist, title,
\* source) record per data row whose title cell is not empty, in row order,
\* an absent artist or source cell read as the empty string; the rows whose
\* title cell is empty or absent give no record.
C2_OneRecordPerTitledRow ==
    (/\ pc = "done"
     /\ ws # <<>>
     /\ \A c \in 1..3 : HasColumn(ws[1], ColumnNames[c])) =>
        LET artist_col == ColumnOf(ws[1], ColumnNames[1])
            title_col  == ColumnOf(ws[1], ColumnNames[2])
            source_col == ColumnOf(ws[1], ColumnNames[3])
            titled     == SelectSeq(Tail(ws), LAMBDA row : row[title_col] \notin {None, <<>>})
            Text(cell) == IF cell = None THEN <<>> ELSE cell
        IN  songs = [k \in 1..Len(titled) |->
                        <<Text(titled[k][artist_col]), titled[k][title_col],
                          Text(titled[k][source_col])>>]

\* The same on the worksheets all of whose cells are None or a str.
C2_OnTextCells ==
    (\A r \in 1..Len(ws) : \A i \in 1..Len(ws[r]) : ws[r][i] = None \/ IsStr(ws[r][i]))
        => C2_OneRecordPerTitledRow

\* An upper-case header, an unread column first, then the source, the artist
\* and the title; a row without a title, then a row with a title and no artist.
C2_TextCase ==
    /\ pc = "done"
    /\ Len(ws) = 3
    /\ ws[1] = <<True, <<"S","O","U","R","C","E">>, <<"A","R","T","I","S","T">>,
                 <<"T","I","T","L","E">>>>
    /\ ws[2][4] = <<>>
    /\ ws[3][3] = None
    /\ songs = << << <<>>, <<"u">>, <<"s">> >> >>

----------------------------------------------------------------------------
(* group_songs_by_source, called on a list of song records *)

MaxSongs == 3

\* Records of text, and three records parse_sheet can return for a row with
\* a bool or a number in it.
GroupSongs == {<<a, <<"x">>, s>> : a \in {<<"a">>, <<"A">>, <<"B">>},
                                   s \in {<<>>, <<"s">>, <<"S">>, <<"T">>}}
              \cup { <<<<"a">>, <<"y">>, <<>>>>, <<<<"a">>, <<"y">>, <<"s">>>>,
                     <<<<"A">>, <<"y">>, <<"S">>>> }
              \cup { <<True, <<"x">>, <<"s">>>>, <<<<"a">>, <<"x">>, IntOne>>,
                     <<<<"a">>, IntOne, <<"s">>>> }

InitGroup ==
    /\ pc = "start"
    /\ songs \in SeqsUpTo(GroupSongs, MaxSongs)
    /\ ws = <<>> /\ groups = <<>>
    /\ NoBook /\ NoText /\ NoIndex /\ NoDocument

CallGroupSongs ==
    /\ pc = "start"
    /\ LET returned == group_songs_by_source(songs)
       IN  IF ListRaised(returned)
           THEN groups' = <<>> /\ pc' = ExceptionName(RaisedBy(returned))
           ELSE groups' = returned /\ pc' = "done"
    /\ UNCHANGED <<wb, section_order, sheets_to_process, ws, songs, text, escaped,
                   all_songs, index_lines, sheet_idx, first_section, lines>>

SpecGroup == InitGroup /\ [][CallGroupSongs]_vars

\* The places <<g, k>> of the songs in a list of groups.
Places(gs) == UNION {{<<g, k>> : k \in 1..Len(gs[g][2])} : g \in 1..Len(gs)}

\* The song at a place, tagged again with the source of its group.
Retagged(gs, pl) == <<gs[pl[1]][2][pl[2]][1], gs[pl[1]][2][pl[2]][2], gs[pl[1]][1]>>

\* C3: the groups group_songs_by_source returns are a partition of its input:
\* the songs of all groups, each tagged with the source of its group, are the
\* input as a multiset, and no two groups have the same source, so that every
\* record is in exactly one group, none lost and none twice.
C3_GroupsPartitionInput ==
    pc = "done" =>
        /\ \A g, h \in 1..Len(groups) : groups[g][1] = groups[h][1] => g = h
        /\ \A g \in 1..Len(groups) : groups[g][2] # <<>>
        /\ Cardinality(Places(groups)) = Len(songs)
        /\ \A r \in {songs[i] : i \in 1..Len(songs)} \cup
                    {Retagged(groups, pl) : pl \in Places(groups)} :
               Cardinality({pl \in Places(groups) : Retagged(groups, pl) = r})
                   = Cardinality({i \in 1..Len(songs) : songs[i] = r})

\* C3's case: three records, two of them the same, in two groups.
C3_Witness ==
    /\ pc = "done"
    /\ Len(songs) = 3
    /\ songs[1] = songs[3]
    /\ songs[2][3] # songs[1][3]
    /\ Len(groups) = 2
    /\ \E g \in 1..2 : Len(groups[g][2]) = 2 /\ groups[g][2][1] = groups[g][2][2]

\* a <= b on str.
StrLessEq(a, b) == a = b \/ StrLess(a, b)

\* The (artist, title) pairs of the input with the given source, in input order.
SongsOfSource(source) ==
    LET with == SelectSeq(songs, LAMBDA r : r[3] = source)
    IN  [i \in 1..Len(with) |-> <<with[i][1], with[i][2]>>]

\* The first place of a source in the input.
FirstPlace(source) == CHOOSE i \in 1..Len(songs) :
                          songs[i][3] = source /\ \A j \in 1..(i - 1) : songs[j][3] # source

\* C4: the groups come in ascending order of lower-cased source, the group of
\* the empty source first; in a group the songs come in ascending order of
\* lower-cased artist; groups of equal lower-cased source and songs of equal
\* lower-cased artist keep the order they have in the input.
C4_SortedAndStable ==
    pc = "done" =>
        /\ \A g \in 1..(Len(groups) - 1) :
               StrLessEq(str_lower(groups[g][1]), str_lower(groups[g + 1][1]))
        /\ \A g \in 1..Len(groups) : groups[g][1] = <<>> => g = 1
        /\ \A g, h \in 1..Len(groups) :
               (g < h /\ str_lower(groups[g][1]) = str_lower(groups[h][1]))
                   => FirstPlace(groups[g][1]) < FirstPlace(groups[h][1])
        /\ \A g \in 1..Len(groups) :
               LET list == groups[g][2]
               IN  /\ \A k \in 1..(Len(list) - 1) :
                          StrLessEq(str_lower(list[k][1]), str_lower(list[k + 1][1]))
                   /\ \A key \in {str_lower(list[k][1]) : k \in 1..Len(list)} :
                          SelectSeq(list, LAMBDA p : str_lower(p[1]) = key)
                              = SelectSeq(SongsOfSource(groups[g][1]),
                                          LAMBDA p : str_lower(p[1]) = key)

\* C4's case: the input B/x/S, A/y/S, a/x/s: two sources equal but for their
\* case, kept in input order, and in the first group a before B, whose code
\* point is the smaller.
C4_Witness ==
    /\ pc = "done"
    /\ songs = << <<<<"B">>, <<"x">>, <<"S">>>>, <<<<"A">>, <<"y">>, <<"S">>>>,
                  <<<<"a">>, <<"x">>, <<"s">>>> >>
    /\ groups = << << <<"S">>, << <<<<"A">>, <<"y">>>>, <<<<"B">>, <<"x">>>> >> >>,
                   << <<"s">>, << <<<<"a">>, <<"x">>>> >> >> >>

----------------------------------------------------------------------------
(* escape_typst, called on a string *)

MaxTextLen == 4

TextChars == {"/", "*", "#", "\\", "a"}

InitEscape ==
    /\ pc = "start"
    /\ text \in SeqsUpTo(TextChars, MaxTextLen) \cup {IntOne, True}
    /\ escaped = <<>>
    /\ NoBook /\ NoSheet /\ NoIndex /\ NoDocument

CallEscapeTypst ==
    /\ pc = "start"
    /\ LET returned == escape_typst(text)
       IN  IF Raises(returned)
           THEN escaped' = <<>> /\ pc' = ExceptionName(returned)
           ELSE escaped' = returned /\ pc' = "done"
    /\ UNCHANGED <<wb, section_order, sheets_to_process, ws, songs, groups, text,
                   all_songs, index_lines, sheet_idx, first_section, lines>>

SpecEscape == InitEscape /\ [][CallEscapeTypst]_vars

\* s holds the two characters a, b next to each other.
HasPair(s, a, b) == \E i \in 1..(Len(s) - 1) : s[i] = a /\ s[i + 1] = b

\* s read from place i as Typst reads it: a backslash and the character it
\* escapes, or a character that needs no escape.
RECURSIVE EscapedFrom(_, _)
EscapedFrom(s, i) ==
    IF i > Len(s) THEN TRUE
    ELSE IF s[i] = "\\" THEN i < Len(s) /\ EscapedFrom(s, i + 2)
    ELSE s[i] \notin SpecialChars /\ EscapedFrom(s, i + 1)

\* The text an escaped string stands for.
RECURSIVE Unescape(_)
Unescape(s) ==
    IF s = <<>> THEN <<>>
    ELSE IF s[1] = "\\" /\ Len(s) >= 2 THEN <<s[2]>> \o Unescape(SubSeq(s, 3, Len(s)))
    ELSE <<s[1]>> \o Unescape(Tail(s))

\* C9: the result of escape_typst holds neither // nor /*, whatever the
\* input, runs of three and more slashes included, and every character of the
\* input among SpecialChars stands behind a backslash in the result.
C9_NoCommentSyntax ==
    pc = "done" =>
        /\ ~HasPair(escaped, "/", "/")
        /\ ~HasPair(escaped, "/", "*")
        /\ EscapedFrom(escaped, 1)
        /\ Unescape(escaped) = text

----------------------------------------------------------------------------
(* generate_alphabetical_index, called on a collection of entries *)

MaxEntries == 3

\* Titles in the '#' bucket on both sides of the letters, titles equal but
\* for their case, a title of a non-ASCII letter, one whose first character
\* has a two-character upper case, and an apostrophe in title and artist;
\* and entries with a title or an artist that is no str.
IndexEntries == {<<t, a, Anime>> : t \in {<<"1">>, <<"'">>, <<"a">>, <<"A">>, <<"b">>,
                                          <<"~">>, <<"ä">>, <<SharpS>>},
                                   a \in {<<>>, <<"a">>, <<"A">>, <<"'">>}}
                \cup { <<IntOne, <<"a">>, Anime>>, <<<<"a">>, True, Anime>> }

InitIndex ==
    /\ pc = "start"
    /\ all_songs \in SeqsUpTo(IndexEntries, MaxEntries)
    /\ index_lines = <<>>
    /\ NoBook /\ NoSheet /\ NoText /\ NoDocument

CallGenerateIndex ==
    /\ pc = "start"
    /\ LET out == generate_alphabetical_index(all_songs)
       IN  index_lines' = Yielded(out) /\ pc' = Outcome(out)
    /\ UNCHANGED <<wb, section_order, sheets_to_process, ws, songs, groups, text,
                   escaped, all_songs, sheet_idx, first_section, lines>>

SpecIndex == InitIndex /\ [][CallGenerateIndex]_vars

\* The places of the data rows and of the letter headers among the index lines.
RowPlaces == {i \in 1..Len(index_lines) :
                index_lines[i][1] \in {"  [{}], [{}],", "  [{}], [],"}}

HeaderPlaces == {i \in 1..Len(index_lines) : index_lines[i][1] = LetterHeader(<<>>)[1]}

\* The (title, artist) of a data row, lower-cased.
RowPair(i) ==
    LET args == index_lines[i][2]
    IN  <<str_lower(Unescape(args[1])),
          IF Len(args) = 2 THEN str_lower(Unescape(args[2])) ELSE <<>>>>

\* C5: no two data rows of the index have the same (title, artist), compared
\* without regard to case, also when an entry of another artist sorts between
\* two entries of the same title and artist.
C5_NoDuplicateRows ==
    pc = "done" =>
        \A i, j \in RowPlaces : RowPair(i) = RowPair(j) => i = j

\* The bucket of a data row: the upper-cased first character of its title if
\* that is a letter, and # otherwise.
RowBucket(i) ==
    LET title == Unescape(index_lines[i][2][1])
        first == IF title = <<>> THEN <<>> ELSE <<title[1]>>
    IN  IF first # <<>> /\ IsLetter(first[1]) THEN str_upper(first) ELSE <<"#">>

HeaderBucket(i) == Unescape(index_lines[i][2][1])

\* C10: every first-letter bucket has exactly one header cell in the index,
\* before all the rows of the bucket, and every row stands under the header
\* of its own bucket; the # header is not emitted a second time for the
\* titles that sort after the letters.
C10_OneHeaderPerBucket ==
    pc = "done" =>
        /\ \A h1, h2 \in HeaderPlaces : HeaderBucket(h1) = HeaderBucket(h2) => h1 = h2
        /\ \A r \in RowPlaces :
               /\ \E h \in HeaderPlaces : h < r /\ HeaderBucket(h) = RowBucket(r)
               /\ LET above == CHOOSE h \in HeaderPlaces :
                                   h < r /\ \A g \in HeaderPlaces : g < r => g <= h
                  IN  HeaderBucket(above) = RowBucket(r)

----------------------------------------------------------------------------
(* generate_typst, run on a workbook and a priority list *)

MaxSheets == 3

TypstNames == <<Muut, Anime, Starred, Extra>>

Rep(x, n) == [i \in 1..n |-> x]

\* A row with a cell that is no str: a number as title, a bool as artist.
NumberRow(which) == CASE which = 1 -> <<<<"a">>, IntOne, <<"s">>>>
                      [] which = 2 -> <<True, <<"t">>, <<"s">>>>

\* A worksheet with n1 titled rows of source "s", n2 titled rows without a
\* source, one row without a title and, if number is not 0, the row
\* NumberRow(number).
ShapedRows(n1, n2, number) ==
    << <<Capitalized(ColumnNames[1]), Capitalized(ColumnNames[2]),
         Capitalized(ColumnNames[3])>> >>
    \o Rep(<<<<"a">>, <<"t">>, <<"s">>>>, n1)
    \o Rep(<<<<"B">>, <<"u">>, None>>, n2)
    \o << <<<<"a">>, None, <<"s">>>> >>
    \o (IF number = 0 THEN <<>> ELSE <<NumberRow(number)>>)

\* Song counts on both sides of the two thresholds of generate_typst:
\* groups of 29 and 30 songs, sections of 99 and 100; and two sheets on which
\* generate_typst raises.
Shapes == {<<0, 0, 0>>, <<1, 0, 0>>, <<29, 70, 0>>, <<30, 70, 0>>, <<1, 0, 1>>, <<1, 0, 2>>}

TypstBooks ==
    {[i \in 1..k |-> [name |-> TypstNames[i],
                      rows |-> ShapedRows(shape[i][1], shape[i][2], shape[i][3])]] :
        k \in 0..(IF MaxSheets < Len(TypstNames) THEN MaxSheets ELSE Len(TypstNames)),
        shape \in [1..MaxSheets -> Shapes]}

TypstOrders == {DEFAULT_ORDER, <<Extra, Starred>>}

Init ==
    /\ pc = "start"
    /\ wb \in TypstBooks
    /\ section_order \in TypstOrders
    /\ sheets_to_process = <<>>
    /\ NoSheet /\ NoText /\ NoIndex /\ NoDocument

\* Up to the first yield: the sheets are sequenced and the preamble is emitted.
Start ==
    /\ pc = "start"
    /\ sheets_to_process' = get_sheets_to_process(wb, section_order)
    /\ all_songs' = <<>>
    /\ lines' = <<Preamble>>
    /\ first_section' = TRUE
    /\ sheet_idx' = 1
    /\ pc' = "sections"
    /\ UNCHANGED <<wb, section_order, ws, songs, groups, text, escaped, index_lines>>

\* One pass of the section loop that ends at `continue'.
SkipSection ==
    /\ pc = "sections"
    /\ sheet_idx <= Len(sheets_to_process)
    /\ LET rows == sheet_rows(wb, sheets_to_process[sheet_idx])
       IN  /\ parse_sheet(rows) = <<>>
           /\ ws' = rows
           /\ songs' = <<>>
    /\ sheet_idx' = sheet_idx + 1
    /\ UNCHANGED <<pc, wb, section_order, sheets_to_process, groups, text, escaped,
                   all_songs, index_lines, first_section, lines>>

\* One pass of the section loop for a sheet with songs; if it raises, the
\* generator ends in the middle of the pass, at this sheet.
RenderSection ==
    /\ pc = "sections"
    /\ sheet_idx <= Len(sheets_to_process)
    /\ LET sheet_name == sheets_to_process[sheet_idx]
           rows       == sheet_rows(wb, sheet_name)
           parsed     == parse_sheet(rows)
           out        == section_lines(sheet_name, parsed, first_section)
       IN  /\ parsed # <<>>
           /\ ws' = rows
           /\ songs' = parsed
           /\ all_songs' = all_songs \o index_entries(parsed, sheet_name)
           /\ lines' = lines \o Yielded(out)
           /\ IF LinesRaised(out)
              THEN pc' = Outcome(out) /\ sheet_idx' = sheet_idx
              ELSE pc' = pc /\ sheet_idx' = sheet_idx + 1
    /\ first_section' = FALSE
    /\ UNCHANGED <<wb, section_order, sheets_to_process, groups, text, escaped,
                   index_lines>>

\* After the loop: yield from generate_alphabetical_index(all_songs).
EmitIndex ==
    /\ pc = "sections"
    /\ sheet_idx > Len(sheets_to_process)
    /\ LET out == generate_alphabetical_index(all_songs)
       IN  /\ index_lines' = Yielded(out)
           /\ lines' = lines \o index_lines'
           /\ pc' = Outcome(out)
    /\ UNCHANGED <<wb, section_order, sheets_to_process, ws, songs, groups, text,
                   escaped, all_songs, sheet_idx, first_section>>

Next == Start \/ SkipSection \/ RenderSection \/ EmitIndex

Spec == Init /\ [][Next]_vars

\* The lines of the section loop are lines[1..SectionLast]: all lines but
\* those of the index.
SectionLast == Len(lines) - Len(index_lines)

\* The places of the section headings and of the page breaks among them.
HeadingPlaces == {i \in 1..SectionLast : lines[i][1] = "= {}"}

BreakPlaces == {i \in 1..SectionLast : lines[i] = PageBreak}

\* A worksheet of the workbook has a data row with a title (the second
\* column of every worksheet of TypstBooks).
HasSongs(name) ==
    LET rows == sheet_rows(wb, name)
    IN  \E r \in 2..Len(rows) : rows[r][2] \notin {None, <<>>}

\* The sheets the section loop has been through, the sheet at which it has
\* raised included, and those of them with songs.
Processed == SubSeq(sheets_to_process, 1,
                    IF pc \in ExceptionNames THEN sheet_idx ELSE sheet_idx - 1)

Rendered == SelectSeq(Processed, HasSongs)

\* The k-th smallest element of a set of numbers.
Nth(S, k) == CHOOSE x \in S : Cardinality({y \in S : y <= x}) = k

\* C7, in every state: the section loop has emitted one heading per sheet
\* with songs it has been through, in their order, and a page break (and a
\* blank line) right before every heading but the first: k headings, k - 1
\* page breaks, none before the first heading.
C7_BreaksAndHeadings ==
    pc # "start" =>
        LET k == Len(Rendered)
        IN  /\ Cardinality(HeadingPlaces) = k
            /\ \A n \in 1..k : lines[Nth(HeadingPlaces, n)] = SectionHeading(Rendered[n])
            /\ Cardinality(BreakPlaces) = IF k = 0 THEN 0 ELSE k - 1
            /\ \A b \in BreakPlaces : lines[b + 1] = Blank /\ b + 2 \in HeadingPlaces
            /\ \A h \in HeadingPlaces :
                   (h - 2 \in BreakPlaces) <=> (h # Nth(HeadingPlaces, 1))

\* C7, in every step: a pass of the loop over a sheet without songs emits
\* nothing and leaves first_section as it is, so that it changes nothing of
\* what the passes after it emit.
C7_EmptySectionSilent ==
    [][(pc = "sections" /\ sheet_idx' = sheet_idx + 1
           /\ ~HasSongs(sheets_to_process[sheet_idx]))
        => (lines' = lines /\ first_section' = first_section /\ all_songs' = all_songs)]_vars

\* C7: a page break right before the heading of every rendered section but
\* the first, wherever the sections without songs fall; a section without
\* songs emits no heading and no page break and has no effect on the others.
C7_PageBreakBeforeAllButFirst == []C7_BreaksAndHeadings /\ C7_EmptySectionSilent

\* C7's case: three sheets gone through, the second of them without songs,
\* the other two rendered with one page break between them.
C7_Witness ==
    /\ pc = "sections"
    /\ sheet_idx = 4
    /\ ~HasSongs(sheets_to_process[2])
    /\ Len(Rendered) = 2
    /\ Cardinality(BreakPlaces) = 1

\* The last line of the section that starts at heading h: the line before
\* the next page break, or the last line.
SectionEnd(h) ==
    LET later == {b \in BreakPlaces : b > h}
    IN  IF later = {} THEN SectionLast ELSE Nth(later, 1) - 1

\* The places of the song lines of the section at h.
SongPlaces(h) == {i \in h..SectionEnd(h) : lines[i][1] \in {"- {} -- {}", "- {}"}}

\* A group is a run of song lines: S being the places of the song lines, the
\* first lines of the groups, and the last line of the group that starts at p.
GroupStarts(S) == {p \in S : p - 1 \notin S}

GroupEnd(S, p) == CHOOSE q \in S :
                      /\ q >= p /\ q + 1 \notin S
                      /\ \A r \in S : (r >= p /\ r + 1 \notin S) => q <= r

\* The block of a group is opened right before its first song, or right
\* before its source heading.
BlockOpened(p) ==
    \/ lines[p - 1] = BlockOpen
    \/ /\ lines[p - 1] = Blank
       /\ lines[p - 2][1] = "== {}"
       /\ lines[p - 3] = BlockOpen

\* C8: a section is wrapped in the 3-column block exactly if it has at least
\* 100 songs, a group in a non-breakable block exactly if it has fewer than
\* 30; the block of a group is closed right after its last song, before the
\* next group, and the column block after the last group of the section.
\* A run that has raised leaves no document: main writes none.
C8_ColumnAndBlockThresholds ==
    pc \notin ExceptionNames =>
    \A h \in HeadingPlaces :
        LET e       == SectionEnd(h)
            S       == SongPlaces(h)
            columns == {i \in h..e : lines[i] = ColumnsOpen}
            blocks  == {i \in h..e : lines[i] = BlockOpen}
            closes  == {i \in h..e : lines[i] = CloseBracket}
            short   == {p \in GroupStarts(S) : GroupEnd(S, p) - p + 1 < 30}
        IN  /\ (columns # {}) <=> (Cardinality(S) >= 100)
            /\ columns # {} => /\ columns = {h + 2}
                               /\ lines[e - 2] = Blank
                               /\ lines[e - 1] = CloseBracket
                               /\ lines[e] = Blank
            /\ columns = {} => lines[e - 1] = Blank /\ lines[e] = Blank
            /\ \A p \in GroupStarts(S) :
                   LET q == GroupEnd(S, p)
                   IN  /\ (p \in short) <=> BlockOpened(p)
                       /\ (p \in short) <=> (lines[q + 1] = CloseBracket)
                       /\ lines[IF p \in short THEN q + 2 ELSE q + 1] = Blank
            /\ Cardinality(blocks) = Cardinality(short)
            /\ Cardinality(closes) = Cardinality(short) + Cardinality(columns)

\* C8's case: a section of 99 songs without the column block, with a group
\* of 29 songs in a non-breakable block, and a section of 100 songs in the
\* column block, with a group of 30 songs outside any block.
C8_Witness ==
    /\ pc = "done"
    /\ \E h \in HeadingPlaces :
           LET S == SongPlaces(h)
           IN  /\ Cardinality(S) = 99
               /\ \A i \in h..SectionEnd(h) : lines[i] # ColumnsOpen
               /\ \E p \in GroupStarts(S) : GroupEnd(S, p) - p + 1 = 29 /\ BlockOpened(p)
    /\ \E h \in HeadingPlaces :
           LET S == SongPlaces(h)
           IN  /\ Cardinality(S) = 100
               /\ lines[h + 2] = ColumnsOpen
               /\ \E p \in GroupStarts(S) : GroupEnd(S, p) - p + 1 = 30 /\ ~BlockOpened(p)

====
